---- MODULE Spec2Model ----
(***************************************************************************)
(* A model of agentzero.core.SocketManager: the named-socket registry, the *)
(* poll registry and the readiness engine built on top of a zeromq poller. *)
(* The transport (zmq sockets, zmq.Poller) and the wall clock are the      *)
(* environment: their answers are nondeterministic inputs of the actions.  *)
(***************************************************************************)
EXTENDS Integers, Sequences, FiniteSets, TLC

\* ------------------------------------------------------------------ domains

\* logical socket names handed to the manager
Names == {"n1", "n2"}

\* socket types handed to context.socket()
SocketTypes == {"REQ", "SUB"}

\* non-empty addresses; EmptyAddress is the falsy address ('' or None)
Addresses == {"inproc://a"}
EmptyAddress == ""

\* the local addresses handed to bind_to_random_port and the ports the
\* transport picks, as str() writes them
LocalAddresses == {"tcp://0.0.0.0"}
Ports == {"5000"}

\* zmq.POLLIN, zmq.POLLOUT and the masks built from them
POLLIN == 1
POLLOUT == 2
Masks == {POLLIN, POLLOUT, POLLIN + POLLOUT}

\* the socket types and masks handed to the lifecycle operations
BookSocketTypes == {"REQ"}
BookMasks == {POLLIN, POLLOUT}

\* python's None, for a socket, for a mask and for a timeout argument
NoSocket == 0
NoMask == 0
NoTimeout == -1

\* application values and the frames that carry them
Values == {"x", "y"}
Frames == {"json:x", "json:y"}

\* the frames a peer can send: those of the values and the JSON text null
PeerFrames == Frames \cup {"json:null"}

\* the addresses a socket is connected to one after the other
ConnectAddresses == {"inproc://a", "inproc://b"}

\* python values handed as a topic, each written as a string: False and None,
\* the texts '' and 't', the bytes b'' and b't' (written "bytes:" followed by
\* their content) and a set, which is no string
NoFilterTopics == {"False", "None"}
TextTopics == {"", "t"}
BytesTopics == {"bytes:", "bytes:t"}
OtherTopics == {"set:boom"}
Topics == NoFilterTopics \cup TextTopics \cup BytesTopics \cup OtherTopics

\* the topics handed to publish_safe, "the name of the topic": the texts 't'
\* and "b't'"
PublishTopics == {"t", "b't'"}

\* the topics handed to subscribe: none and a text
SubscribeTopics == {"None", "t"}

\* the keep_polling handed to subscribe: none, a function, and two values
\* that are not callable, the text 'not a callable' and the number 0
KeepPollings == {"None", "function", "not a callable", "0"}

\* the frames of a message a publisher sends: the topic and the payload
TopicFrames == {"bytes:t", "bytes:b't'"}
PayloadFrames == {"bytes:json:x", "bytes:json:y"}

\* ------------------------------------------------------------------- bounds

\* the longest one iteration of the wait loop (its two polls) lasts, in ticks
\* of the wall clock (seconds)
MaxIterationTicks == 1
\* frames a peer may have queued on one socket
MaxInbox == 1
\* iterations of the wait_until_ready loop that are explored
MaxIterations == 2
\* cap of the history counter of poller.register calls
MaxRegistrations == 2
\* messages the transport queues on one socket before it drops the next
MaxQueue == 1
\* evaluations of keep_polling() by one subscribe generator that are explored
MaxChecks == 2

\* every socket object context.socket() can have returned: sockets are never
\* removed from self.sockets, so there is at most one per name
Handles == 1..Cardinality(Names)

\* the socket object context.socket() returns when create(name, ...) calls it:
\* a fresh object, told apart from the others by the name it was made for
NewSocket(name) == IF name = "n1" THEN 1 ELSE 2

\* timeouts (seconds) and polling timeouts (milliseconds) passed by callers
Timeouts == {NoTimeout, 0, 1}
PollingTimeouts == {NoTimeout, 0}
\* the polling timeouts passed to wait_until_ready, send_safe and recv_safe
WaitPollingTimeouts == {NoTimeout}
\* the timeouts passed through send_safe and recv_safe
SafeTimeouts == {0, 1}
\* the manager's configured self.timeout and self.polling_timeout
ConfiguredTimeouts == {2}
ConfiguredPollingTimeouts == {5}
\* the polling timeouts of the managers on which engage is called alone:
\* a positive one and zero
EnginePollingTimeouts == {0, 5}

\* -------------------------------------------------------------------- state

VARIABLES
    sockets,              \* self.sockets: name -> socket (NoSocket: not a key)
    addresses,            \* self.addresses: name -> address (EmptyAddress: not a key)
    registry,             \* self.registry: socket -> mask (NoMask: not a key)
    poller,               \* self.poller: the sockets registered with zmq.Poller
    self_timeout,         \* self.timeout
    self_polling_timeout, \* self.polling_timeout
    closed,               \* socket.closed of every socket object
    inbox,                \* the number of frames peers have queued on every socket
    registrations,        \* poller.register calls per socket since it last left self.registry
    last,                 \* the current or most recent call: arguments, locals, result, outward calls
    subscribed,           \* the filters set on every socket with setsockopt(zmq.SUBSCRIBE, ...)
    queue,                \* the two-frame messages publishers have delivered to every socket
    generator,            \* the generator object returned by subscribe
    endpoints             \* the addresses every socket is connected or bound to in the transport

vars == <<sockets, addresses, registry, poller, self_timeout, self_polling_timeout,
          closed, inbox, registrations, last, subscribed, queue, generator, endpoints>>

\* the publish/subscribe transport and the subscribe generator
pubsub == <<subscribed, queue, generator>>

\* the bookkeeping maps of the manager and the multiplexer's registrations
bookkeeping == <<sockets, addresses, registry, poller, registrations>>

\* the constructor's arguments
config == <<self_timeout, self_polling_timeout>>

\* ------------------------------------------------------------------ helpers

\* `given is None and default or given`
AndOr(given, default) ==
    IF given = NoTimeout /\ default # 0 THEN default ELSE given

HasIn(mask) == mask \in {POLLIN, POLLIN + POLLOUT}
HasOut(mask) == mask \in {POLLOUT, POLLIN + POLLOUT}

\* a serializer that packs one value as the other
pack_crossed(item) ==
    CASE item = "x" -> "json:y"
      [] item = "y" -> "json:x"

\* serialization_backend.pack / unpack (serializers.JSON)
pack(item) ==
    CASE item = "x" -> "json:x"
      [] item = "y" -> "json:y"

unpack(item) ==
    CASE item = "json:x" -> "x"
      [] item = "json:y" -> "y"
      [] item = "bytes:json:x" -> "x"
      [] item = "bytes:json:y" -> "y"
      [] item = "json:null" -> "None"

\* six.text_type, which is str: a text is itself, a bytes value and a set
\* become their repr
text_type(s) ==
    CASE s = "bytes:" -> "b''"
      [] s = "bytes:t" -> "b't'"
      [] s = "set:boom" -> "{'boom'}"
      [] OTHER -> s

\* zmq.utils.strtypes.cast_bytes of a text: its utf-8 encoding
encode(s) == "bytes:" \o s

\* a cast_bytes that hands its argument on as it is
cast_nothing(s) == s

\* util.cast_bytes
cast_bytes(s) == encode(text_type(s))

\* `topic or ''`
topic_or_empty(topic) ==
    IF topic \in {"False", "None", "", "bytes:"} THEN "" ELSE topic

\* one outward call: on the transport, the poller or the serializer
Call(f, h, args) == [f |-> f, h |-> h, args |-> args]

\* the call of poller.poll; its timeout is recorded in polls
Polled == Call("poll", NoSocket, <<>>)

\* the snapshot of a poll that found nothing ready
NothingReady == [h \in Handles |-> NoMask]

\* the record of a call of operation op on name, before it has done anything
\* (taken: whether another task of the process received a frame from the
\* socket while the call was suspended in a poll):
\* data is the value to send or the address to connect or bind to, topic the
\* topic argument, event the topic and data of the Event returned, elapsed is
\* current - start of the wait loop, avail the available_mechanism
\* of ready, polls the timeouts handed to poller.poll, calls the other
\* outward calls, ret the result (an exception's name when it raises)
Called(op, name) ==
    [op |-> op, name |-> name, mask |-> NoMask, timeout |-> NoTimeout,
     polling_timeout |-> NoTimeout, data |-> "", elapsed |-> 0,
     ret |-> "None", sock |-> NoSocket, val |-> "", avail |-> NoMask,
     snap |-> NothingReady, polls |-> <<>>, calls |-> <<>>,
     topic |-> "None", event |-> <<>>, taken |-> FALSE]

\* a call is inside the wait_until_ready loop, or stuck in a poll or a
\* receive that never returns
Running == last.ret \in {"running", "blocked"}

\* the socket objects context.socket() has returned so far
Created == {sockets[n] : n \in Names} \ {NoSocket}

\* a poll that hands out the snapshot kept from the last engage
SnapshotKept(writable) == last.snap

\* the snapshot zmq.Poller.poll returns: a socket registered for POLLIN
\* reports it when a frame is queued, one registered for POLLOUT reports it
\* when the transport can take a frame (the sockets in writable)
Snapshot(writable) ==
    [h \in Handles |->
        (IF HasIn(poller[h]) /\ ~closed[h] /\ inbox[h] > 0 THEN POLLIN ELSE 0)
        + (IF HasOut(poller[h]) /\ ~closed[h] /\ h \in writable THEN POLLOUT ELSE 0)]

\* the sockets the transport may report writable
Writables == SUBSET {h \in Handles : HasOut(poller[h])}

\* poller.poll(None) returns only once a socket is ready
PollBlocks(polling_timeout, snapshot) ==
    polling_timeout = NoTimeout /\ snapshot = NothingReady

\* no generator: subscribe has not been called. state is where the generator
\* stands, keep_polling the predicate it was given, checks the results of
\* keep_polling() so far, events the topic and data of the Events yielded,
\* origins the topic and data the messages received were published with
NoGenerator ==
    [state |-> "none", name |-> "", topic |-> "None", keep_polling |-> "None",
     sock |-> NoSocket, checks |-> <<>>, calls |-> <<>>, events |-> <<>>,
     origins |-> <<>>]

\* ----------------------------------------------------------- initial state

\* SocketManager.__init__, given a timeout from timeouts and a polling
\* timeout from polling_timeouts; nothing is connected yet
constructed(timeouts, polling_timeouts) ==
    /\ sockets = [n \in Names |-> NoSocket]
    /\ addresses = [n \in Names |-> EmptyAddress]
    /\ registry = [h \in Handles |-> NoMask]
    /\ poller = [h \in Handles |-> NoMask]
    /\ self_timeout \in timeouts
    /\ self_polling_timeout \in polling_timeouts
    /\ closed = [h \in Handles |-> FALSE]
    /\ inbox = [h \in Handles |-> 0]
    /\ registrations = [h \in Handles |-> 0]
    /\ last = Called("__init__", "")
    /\ subscribed = [h \in Handles |-> {}]
    /\ queue = [h \in Handles |-> <<>>]
    /\ generator = NoGenerator
    /\ endpoints = [h \in Handles |-> {}]

\* a manager constructed with a positive timeout and polling timeout
Init == constructed(ConfiguredTimeouts, ConfiguredPollingTimeouts)

\* ------------------------------------------------------ registry operations

\* a call that raises exc before any outward call
Raised(op, name, exc) == [Called(op, name) EXCEPT !.ret = exc]

\* a call that returns a socket
ReturnedSocket(op, name, socket, calls) ==
    [Called(op, name) EXCEPT !.ret = "socket", !.sock = socket, !.calls = calls]

\* `name not in self.sockets`: the guard of get_by_name
not_found(name) == sockets[name] = NoSocket

\* SocketManager.get_by_name
get_by_name(name) ==
    /\ ~Running
    /\ last' = IF not_found(name)
               THEN Raised("get_by_name", name, "SocketNotFound")
               ELSE ReturnedSocket("get_by_name", name, sockets[name], <<>>)
    /\ UNCHANGED <<bookkeeping, config, endpoints, pubsub, closed, inbox>>

\* a create that never finds the name taken
never_exists(name) == FALSE

\* `name in self.sockets`: the guard of create
already_exists(name) == sockets[name] # NoSocket

\* SocketManager.create
create(name, socket_type) ==
    /\ ~Running
    /\ IF already_exists(name)
       THEN /\ last' = Raised("create", name, "SocketAlreadyExists")
            /\ UNCHANGED sockets
       ELSE /\ sockets' = [sockets EXCEPT ![name] = NewSocket(name)]
            /\ last' = ReturnedSocket("create", name, NewSocket(name),
                            <<Call("context.socket", NewSocket(name), <<socket_type>>),
                              Call("setsockopt", NewSocket(name), <<"IDENTITY">>)>>)
    /\ UNCHANGED <<addresses, registry, poller, registrations, config, endpoints, pubsub, closed, inbox>>

\* a register_socket that never finds the socket registered
never_in_registry(socket) == FALSE

\* `socket not in self.registry` negated: the guard of register_socket
in_registry(socket) == registry[socket] # NoMask

\* the name of a mask in the record of a call
MaskName(mask) ==
    CASE mask = POLLIN -> "POLLIN"
      [] mask = POLLOUT -> "POLLOUT"
      [] mask = POLLIN + POLLOUT -> "POLLIN|POLLOUT"
      [] OTHER -> "None"

\* a register_socket that writes nothing into self.registry
registry_untouched(socket, mask) == registry

\* what register_socket(socket, polling_mechanism) leaves in self.registry,
\* in the poller and in the record of outward calls
registry_registered(socket, mask) ==
    IF in_registry(socket) THEN registry ELSE [registry EXCEPT ![socket] = mask]

poller_registered(socket, mask) ==
    IF in_registry(socket) THEN poller ELSE [poller EXCEPT ![socket] = mask]

registrations_registered(socket) ==
    IF in_registry(socket)
    THEN registrations
    ELSE [registrations EXCEPT
            ![socket] = IF @ < MaxRegistrations THEN @ + 1 ELSE @]

calls_registered(socket, mask) ==
    IF in_registry(socket)
    THEN <<>>
    ELSE <<Call("poller.register", socket, <<MaskName(mask)>>)>>

\* SocketManager.register_socket
register_socket(socket, polling_mechanism) ==
    /\ ~Running
    /\ socket \in Created
    /\ registry' = registry_registered(socket, polling_mechanism)
    /\ poller' = poller_registered(socket, polling_mechanism)
    /\ registrations' = registrations_registered(socket)
    /\ last' = [ReturnedSocket("register_socket", "", socket,
                               calls_registered(socket, polling_mechanism))
                EXCEPT !.mask = polling_mechanism]
    /\ UNCHANGED <<sockets, addresses, config, endpoints, pubsub, closed, inbox>>

\* a pop that empties the address book
addresses_cleared(socket_name) == [name \in Names |-> EmptyAddress]

\* the address book after `self.addresses.pop(socket_name, None)`
addresses_popped(socket_name) == [addresses EXCEPT ![socket_name] = EmptyAddress]

\* SocketManager.close
close(socket_name) ==
    /\ ~Running
    /\ IF not_found(socket_name)
       THEN /\ last' = Raised("close", socket_name, "SocketNotFound")
            /\ UNCHANGED <<poller, addresses, closed, inbox, endpoints>>
       ELSE LET socket == sockets[socket_name] IN
            /\ endpoints' = [endpoints EXCEPT ![socket] = {}]
            /\ poller' = [poller EXCEPT ![socket] = NoMask]
            /\ addresses' = addresses_popped(socket_name)
            /\ closed' = [closed EXCEPT ![socket] = TRUE]
            /\ inbox' = [inbox EXCEPT ![socket] = 0]
            /\ last' = [Called("close", socket_name) EXCEPT
                          !.calls = <<Call("poller.unregister", socket, <<>>),
                                      Call("close", socket, <<>>)>>]
    /\ UNCHANGED <<sockets, registry, registrations, config, pubsub>>

\* whether the transport takes a call on socket: ok is its answer on an open
\* socket, a closed socket refuses every call (ZMQError, ENOTSOCK)
accepts(socket, ok) == ok /\ ~closed[socket]

\* a disconnect that calls the transport whatever the address book held
calls_disconnected_anyway(socket, address) ==
    <<Call("disconnect", socket, <<address>>)>>

\* `if address: socket.disconnect(address)`: the transport calls of disconnect
calls_disconnected(socket, address) ==
    IF address # EmptyAddress
    THEN <<Call("disconnect", socket, <<address>>)>>
    ELSE <<>>

\* SocketManager.disconnect; ok: whether the transport accepts socket.disconnect
disconnect(socket_name, ok) ==
    /\ ~Running
    /\ IF not_found(socket_name)
       THEN /\ last' = Raised("disconnect", socket_name, "SocketNotFound")
            /\ UNCHANGED <<addresses, registry, poller, registrations, endpoints>>
       ELSE LET socket == sockets[socket_name]
                address == addresses[socket_name]
                calls == calls_disconnected(socket, address)
            IN
            /\ addresses' = addresses_popped(socket_name)
            /\ IF address # EmptyAddress /\ ~accepts(socket, ok)
               THEN /\ last' = [Called("disconnect", socket_name) EXCEPT
                                  !.ret = "ZMQError", !.calls = calls]
                    /\ UNCHANGED <<registry, poller, registrations, endpoints>>
               ELSE /\ endpoints' = [endpoints EXCEPT ![socket] = @ \ {address}]
                    /\ registry' = [registry EXCEPT ![socket] = NoMask]
                    /\ registrations' = [registrations EXCEPT ![socket] = 0]
                    /\ poller' = [poller EXCEPT ![socket] = NoMask]
                    /\ last' = [Called("disconnect", socket_name) EXCEPT
                                  !.ret = "True",
                                  !.calls = calls \o
                                      <<Call("poller.unregister", socket, <<>>)>>]
    /\ UNCHANGED <<sockets, config, pubsub, closed, inbox>>

\* what the socket is attached to once the transport was asked to connect or
\* bind it to address: the address is added when the transport accepts
endpoints_added(socket, address, ok) ==
    IF accepts(socket, ok)
    THEN [endpoints EXCEPT ![socket] = @ \cup {address}]
    ELSE endpoints

\* a connect or bind that takes any address
any_address(address) == FALSE

\* `not address`: the first guard of connect and of bind
empty_address(address) == address = EmptyAddress

\* an except clause that lets the ZMQError of the transport through
raised_raw(error) == "ZMQError"

\* `except ZMQError as e: raise SocketConnectError(msg)`, and the same with
\* SocketBindError: the exception the caller sees
reraised(error) == error

\* the body shared by SocketManager.connect and SocketManager.bind: op is the
\* transport call, error the exception of the operation, ok whether the
\* transport accepts the call
connect_or_bind(op, error, socket_name, address, polling_mechanism, ok) ==
    /\ ~Running
    /\ IF empty_address(address)
       THEN /\ last' = [Raised(op, socket_name, error) EXCEPT
                          !.mask = polling_mechanism, !.data = address]
            /\ UNCHANGED <<addresses, registry, poller, registrations, endpoints>>
       ELSE /\ addresses' = [addresses EXCEPT ![socket_name] = address]
            /\ IF not_found(socket_name)
               THEN /\ last' = [Raised(op, socket_name, "SocketNotFound") EXCEPT
                                  !.mask = polling_mechanism, !.data = address]
                    /\ UNCHANGED <<registry, poller, registrations, endpoints>>
               ELSE LET socket == sockets[socket_name] IN
                    /\ endpoints' = endpoints_added(socket, address, ok)
                    /\ registry' = registry_registered(socket, polling_mechanism)
                    /\ poller' = poller_registered(socket, polling_mechanism)
                    /\ registrations' = registrations_registered(socket)
                    /\ last' = [Called(op, socket_name) EXCEPT
                                  !.mask = polling_mechanism,
                                  !.data = address,
                                  !.ret = IF accepts(socket, ok)
                                          THEN "socket" ELSE reraised(error),
                                  !.sock = IF accepts(socket, ok)
                                           THEN socket ELSE NoSocket,
                                  !.polls = <<0>>,
                                  !.calls = calls_registered(socket, polling_mechanism)
                                            \o <<Polled, Call(op, socket, <<address>>)>>]
    /\ UNCHANGED <<sockets, config, pubsub, closed, inbox>>

\* SocketManager.connect
connect(socket_name, address, polling_mechanism, ok) ==
    connect_or_bind("connect", "SocketConnectError", socket_name, address,
                    polling_mechanism, ok)

\* SocketManager.bind
bind(socket_name, address, polling_mechanism, ok) ==
    connect_or_bind("bind", "SocketBindError", socket_name, address,
                    polling_mechanism, ok)

\* a composed address that leaves the port out
local_address_only(local_address, port) == local_address

\* `':'.join(list(map(str, [local_address, port])))`
composed(local_address, port) == local_address \o ":" \o port

\* SocketManager.bind_to_random_port; port: the port the transport picks, ok:
\* whether the transport accepts socket.bind_to_random_port
bind_to_random_port(socket_name, polling_mechanism, local_address, port, ok) ==
    /\ ~Running
    /\ IF not_found(socket_name)
       THEN /\ last' = [Raised("bind_to_random_port", socket_name, "SocketNotFound")
                        EXCEPT !.mask = polling_mechanism]
            /\ UNCHANGED <<addresses, registry, poller, registrations, endpoints>>
       ELSE LET socket == sockets[socket_name]
                address == composed(local_address, port)
                call == [Called("bind_to_random_port", socket_name) EXCEPT
                           !.mask = polling_mechanism,
                           !.polls = <<0>>,
                           !.calls = calls_registered(socket, polling_mechanism)
                                     \o <<Polled, Call("bind_to_random_port", socket,
                                                       <<local_address>>)>>]
            IN
            /\ registry' = registry_registered(socket, polling_mechanism)
            /\ poller' = poller_registered(socket, polling_mechanism)
            /\ registrations' = registrations_registered(socket)
            /\ endpoints' = endpoints_added(socket, address, ok)
            /\ IF accepts(socket, ok)
               THEN /\ addresses' = [addresses EXCEPT ![socket_name] = address]
                    /\ last' = [call EXCEPT !.ret = "socket, address",
                                            !.sock = socket, !.data = address]
               ELSE /\ last' = [call EXCEPT !.ret = "ZMQError"]
                    /\ UNCHANGED addresses
    /\ UNCHANGED <<sockets, config, pubsub, closed, inbox>>

\* a get_or_create that finds every name absent
always_absent(name) == TRUE

\* `name not in self.sockets`: the guard of get_or_create
absent(name) == sockets[name] = NoSocket

\* the socket get_or_create(name, ...) ends with, and the calls of the create
\* it makes when the name is absent
socket_got_or_created(name) ==
    IF absent(name) THEN NewSocket(name) ELSE sockets[name]

calls_created(name, socket_type) ==
    IF absent(name)
    THEN <<Call("context.socket", NewSocket(name), <<socket_type>>),
           Call("setsockopt", NewSocket(name), <<"IDENTITY">>)>>
    ELSE <<>>

\* what get_or_create(name, socket_type, polling_mechanism) does to the
\* manager
got_or_created(name, polling_mechanism) ==
    LET socket == socket_got_or_created(name) IN
    /\ sockets' = [sockets EXCEPT ![name] = socket]
    /\ registry' = registry_registered(socket, polling_mechanism)
    /\ poller' = poller_registered(socket, polling_mechanism)
    /\ registrations' = registrations_registered(socket)

\* SocketManager.get_or_create
get_or_create(name, socket_type, polling_mechanism) ==
    /\ ~Running
    /\ got_or_created(name, polling_mechanism)
    /\ last' = [ReturnedSocket("get_or_create", name, socket_got_or_created(name),
                               calls_created(name, socket_type)
                               \o calls_registered(socket_got_or_created(name),
                                                   polling_mechanism))
                EXCEPT !.mask = polling_mechanism]
    /\ UNCHANGED <<addresses, config, endpoints, pubsub, closed, inbox>>

\* the body shared by SocketManager.ensure_and_connect and
\* SocketManager.ensure_and_bind: get_or_create, then connect or bind, whose
\* register_socket finds the socket registered, then engage() with the
\* configured polling timeout; an exception of connect or bind ends the call
ensure_and(op, transport, error, socket_name, socket_type, address, polling_mechanism, ok) ==
    LET socket == socket_got_or_created(socket_name)
        call == [Called(op, socket_name) EXCEPT
                   !.mask = polling_mechanism,
                   !.data = address,
                   !.calls = calls_created(socket_name, socket_type)
                             \o calls_registered(socket, polling_mechanism)]
        tried == [call EXCEPT
                    !.polls = <<0>>,
                    !.calls = @ \o <<Polled, Call(transport, socket, <<address>>)>>]
    IN
    /\ ~Running
    /\ got_or_created(socket_name, polling_mechanism)
    /\ IF empty_address(address)
       THEN /\ last' = [call EXCEPT !.ret = error]
            /\ UNCHANGED <<addresses, endpoints>>
       ELSE /\ addresses' = [addresses EXCEPT ![socket_name] = address]
            /\ endpoints' = endpoints_added(socket, address, ok)
            /\ last' = IF accepts(socket, ok)
                       THEN [tried EXCEPT
                               !.ret = "socket",
                               !.sock = socket,
                               !.polls = @ \o <<AndOr(NoTimeout, self_polling_timeout)>>,
                               !.calls = @ \o <<Polled>>]
                       ELSE [tried EXCEPT !.ret = reraised(error)]
    /\ UNCHANGED <<config, pubsub, closed, inbox>>

\* SocketManager.ensure_and_connect
ensure_and_connect(socket_name, socket_type, address, polling_mechanism, ok) ==
    ensure_and("ensure_and_connect", "connect", "SocketConnectError", socket_name,
               socket_type, address, polling_mechanism, ok)

\* SocketManager.ensure_and_bind
ensure_and_bind(socket_name, socket_type, address, polling_mechanism, ok) ==
    ensure_and("ensure_and_bind", "bind", "SocketBindError", socket_name,
               socket_type, address, polling_mechanism, ok)

\* a teardown that stops at the first socket whose close raises
closes_until_raise(raising) ==
    {socket \in Created : \A bad \in raising : socket <= bad}

\* the sockets whose close() SocketManager.__del__ calls: all of
\* self.sockets.values(), as `except (Exception, BaseException): pass`
\* swallows what a close raises
closes(raising) == Created

\* the calls of close() on the sockets in todo, one each, in the order of
\* their handles
RECURSIVE calls_closing(_)
calls_closing(todo) ==
    IF todo = {} THEN <<>>
    ELSE LET socket == CHOOSE h \in todo : \A other \in todo : h <= other
         IN <<Call("close", socket, <<>>)>> \o calls_closing(todo \ {socket})

\* SocketManager.__del__; raising: the sockets whose close() raises, and
\* which stay as they were
__del__(raising) ==
    /\ ~Running
    /\ closed' = [h \in Handles |-> closed[h] \/ h \in closes(raising) \ raising]
    /\ inbox' = [h \in Handles |-> IF closed'[h] THEN 0 ELSE inbox[h]]
    /\ endpoints' = [h \in Handles |-> IF closed'[h] THEN {} ELSE endpoints[h]]
    /\ addresses' = [name \in Names |-> EmptyAddress]
    /\ registry' = [h \in Handles |-> NoMask]
    /\ registrations' = [h \in Handles |-> 0]
    /\ last' = [Called("__del__", "") EXCEPT !.calls = calls_closing(closes(raising))]
    /\ UNCHANGED <<sockets, poller, config, pubsub>>

\* -------------------------------------------------------- readiness engine

\* SocketManager.engage; writable: the sockets the transport reports writable
engage(timeout, writable) ==
    /\ ~Running
    /\ LET polling_timeout == AndOr(timeout, self_polling_timeout)
           snapshot == Snapshot(writable)
       IN last' = [Called("engage", "") EXCEPT
                     !.timeout = timeout,
                     !.polls = <<polling_timeout>>,
                     !.calls = <<Polled>>,
                     !.snap = snapshot,
                     !.ret = IF PollBlocks(polling_timeout, snapshot)
                             THEN "blocked" ELSE "snapshot"]
    /\ UNCHANGED <<bookkeeping, config, endpoints, pubsub, closed, inbox>>

\* a ready that is content with a socket available for more than was asked
is_ready_for_more(polling_mechanism, available_mechanism) ==
    /\ HasIn(polling_mechanism) => HasIn(available_mechanism)
    /\ HasOut(polling_mechanism) => HasOut(available_mechanism)

\* `polling_mechanism == available_mechanism`: the test of ready
is_ready(polling_mechanism, available_mechanism) ==
    polling_mechanism = available_mechanism

\* SocketManager.ready
ready(name, polling_mechanism, timeout, writable) ==
    /\ ~Running
    /\ IF not_found(name)
       THEN last' = [Raised("ready", name, "SocketNotFound") EXCEPT
                       !.mask = polling_mechanism, !.timeout = timeout]
       ELSE LET socket == sockets[name]
                polling_timeout == AndOr(AndOr(timeout, self_timeout),
                                         self_polling_timeout)
                snapshot == Snapshot(writable)
                available_mechanism == snapshot[socket]
                found == is_ready(polling_mechanism, available_mechanism)
            IN last' = [Called("ready", name) EXCEPT
                          !.mask = polling_mechanism,
                          !.timeout = timeout,
                          !.polls = <<polling_timeout>>,
                          !.calls = <<Polled>>,
                          !.avail = available_mechanism,
                          !.ret = IF PollBlocks(polling_timeout, snapshot) THEN "blocked"
                                  ELSE IF found THEN "socket" ELSE "None",
                          !.sock = IF found /\ ~PollBlocks(polling_timeout, snapshot)
                                   THEN socket ELSE NoSocket]
    /\ UNCHANGED <<bookkeeping, config, endpoints, pubsub, closed, inbox>>

\* the return of wait_until_ready, socket being what its loop ended with
wait_until_ready_return(call, socket) ==
    [call EXCEPT !.ret = IF socket # NoSocket THEN "socket" ELSE "None",
                 !.sock = socket]

\* a send_safe that packs the data before it looks at the result of the wait
send_safe_packs_first(call, socket) ==
    LET packed == [call EXCEPT !.calls = @ \o <<Call("pack", NoSocket, <<call.data>>)>>]
    IN IF socket = NoSocket
       THEN [packed EXCEPT !.ret = "False"]
       ELSE [packed EXCEPT !.ret = "True",
                           !.calls = @ \o <<Call("send", socket, <<pack(call.data)>>)>>]

\* the last lines of send_safe, socket being what wait_until_ready returned
send_safe_return(call, socket) ==
    IF socket = NoSocket
    THEN [call EXCEPT !.ret = "False"]
    ELSE [call EXCEPT !.ret = "True",
                      !.calls = @ \o <<Call("pack", NoSocket, <<call.data>>),
                                       Call("send", socket, <<pack(call.data)>>)>>]

\* a recv_safe that returns the frame as it was received
recv_safe_raw(call, socket, frame) ==
    IF socket = NoSocket
    THEN [call EXCEPT !.ret = "None"]
    ELSE IF inbox[socket] = 0
    THEN [call EXCEPT !.ret = "blocked",
                      !.calls = @ \o <<Call("recv", socket, <<>>)>>]
    ELSE [call EXCEPT !.ret = "value",
                      !.val = frame,
                      !.calls = @ \o <<Call("recv", socket, <<frame>>)>>]

\* a recv_safe that receives from the socket of the name also when
\* wait_until_ready returned None
recv_safe_anyway(call, socket, frame) ==
    IF not_found(call.name)
    THEN [call EXCEPT !.ret = "None"]
    ELSE IF inbox[sockets[call.name]] = 0
    THEN [call EXCEPT !.ret = "blocked",
                      !.calls = @ \o <<Call("recv", sockets[call.name], <<>>)>>]
    ELSE [call EXCEPT !.ret = "value",
                      !.val = unpack(frame),
                      !.calls = @ \o <<Call("recv", sockets[call.name], <<frame>>),
                                       Call("unpack", NoSocket, <<frame>>)>>]

\* the last lines of recv_safe, socket being what wait_until_ready returned
\* and frame the frame at the head of the socket's queue; socket.recv()
\* does not return while the queue is empty
recv_safe_return(call, socket, frame) ==
    IF socket = NoSocket
    THEN [call EXCEPT !.ret = "None"]
    ELSE IF inbox[socket] = 0
    THEN [call EXCEPT !.ret = "blocked",
                      !.calls = @ \o <<Call("recv", socket, <<>>)>>]
    ELSE [call EXCEPT !.ret = "value",
                      !.val = unpack(frame),
                      !.calls = @ \o <<Call("recv", socket, <<frame>>),
                                       Call("unpack", NoSocket, <<frame>>)>>]

\* the last lines of recv_event_safe, socket being what wait_until_ready
\* returned and message the two frames at the head of the socket's queue
recv_event_safe_return(call, socket, message) ==
    IF socket = NoSocket
    THEN [call EXCEPT !.ret = "None"]
    ELSE IF inbox[socket] = 0
    THEN [call EXCEPT !.ret = "blocked",
                      !.calls = @ \o <<Call("recv_multipart", socket, <<>>)>>]
    ELSE [call EXCEPT !.ret = "event",
                      !.event = <<message[1], unpack(message[2])>>,
                      !.calls = @ \o <<Call("recv_multipart", socket, message),
                                       Call("unpack", NoSocket, <<message[2]>>)>>]

\* what the caller of the wait loop does with its result: the return of
\* wait_until_ready itself, or the last lines of send_safe / recv_safe
finished(call, socket, frame) ==
    CASE call.op = "wait_until_ready" -> wait_until_ready_return(call, socket)
      [] call.op = "send_safe" -> send_safe_return(call, socket)
      [] call.op = "recv_safe" -> recv_safe_return(call, socket, frame)
      [] call.op = "recv_event_safe" -> recv_event_safe_return(call, socket, frame)

\* the frames left on the sockets once the caller has used the result
received(call, socket) ==
    IF call.op \in {"recv_safe", "recv_event_safe"} /\ socket # NoSocket /\ inbox[socket] > 0
    THEN [inbox EXCEPT ![socket] = @ - 1]
    ELSE inbox

\* a loop that never finds the timeout reached
waits_on(elapsed, timeout) == TRUE

\* a loop that gives up before its first iteration
gives_up(elapsed, timeout) == FALSE

\* `current - start < timeout`: the condition of the wait_until_ready loop
keeps_waiting(elapsed, timeout) == elapsed < timeout

\* the entry of wait_until_ready, in the call recorded so far: the defaults,
\* start = current = time.time() and the first test of the loop condition
entered(call, timeout, polling_timeout) ==
    LET waited == [call EXCEPT
                     !.timeout = AndOr(timeout, self_timeout),
                     !.polling_timeout = AndOr(polling_timeout, self_polling_timeout)]
    IN IF waited.timeout = NoTimeout
       THEN [waited EXCEPT !.ret = "TypeError"]
       ELSE IF keeps_waiting(0, waited.timeout)
       THEN [waited EXCEPT !.ret = "running"]
       ELSE finished(waited, NoSocket, "")

\* wait_until_ready called as op: by the caller itself, or first thing by
\* send_safe / recv_safe
waiting(op, name, polling_mechanism, data, timeout, polling_timeout) ==
    /\ ~Running
    /\ last' = entered([Called(op, name) EXCEPT !.mask = polling_mechanism,
                                                !.data = data],
                       timeout, polling_timeout)
    /\ UNCHANGED <<bookkeeping, config, endpoints, pubsub, closed, inbox>>

\* SocketManager.wait_until_ready
wait_until_ready(name, polling_mechanism, timeout, polling_timeout) ==
    waiting("wait_until_ready", name, polling_mechanism, "", timeout, polling_timeout)

\* SocketManager.send_safe
send_safe(name, data, timeout, polling_timeout) ==
    waiting("send_safe", name, POLLOUT, data, timeout, polling_timeout)

\* SocketManager.recv_safe
recv_safe(name, timeout, polling_timeout) ==
    waiting("recv_safe", name, POLLIN, "", timeout, polling_timeout)

\* `isinstance(topic, bytes)`: the test of recv_event_safe
isinstance_bytes(topic) == topic \in BytesTopics

\* SocketManager.recv_event_safe: the type test of the topic, set_topic (which
\* is set_socket_option: get_by_name then socket.setsockopt, refused by a
\* closed socket), then the wait for POLLIN
recv_event_safe(name, topic, timeout, polling_timeout) ==
    /\ ~Running
    /\ LET call == [Called("recv_event_safe", name) EXCEPT
                      !.mask = POLLIN, !.topic = topic]
           safe_topic == cast_bytes(topic_or_empty(topic))
           socket == sockets[name]
           set == [call EXCEPT !.calls = <<Call("setsockopt", socket,
                                                <<"SUBSCRIBE", safe_topic>>)>>]
       IN IF ~isinstance_bytes(topic_or_empty(topic))
          THEN /\ last' = [call EXCEPT !.ret = "TypeError"]
               /\ UNCHANGED subscribed
          ELSE IF not_found(name)
          THEN /\ last' = [call EXCEPT !.ret = "SocketNotFound"]
               /\ UNCHANGED subscribed
          ELSE IF closed[socket]
          THEN /\ last' = [set EXCEPT !.ret = "ZMQError"]
               /\ UNCHANGED subscribed
          ELSE /\ subscribed' = [subscribed EXCEPT ![socket] = @ \cup {safe_topic}]
               /\ last' = entered(set, timeout, polling_timeout)
    /\ UNCHANGED <<bookkeeping, config, endpoints, closed, inbox, queue, generator>>

\* one iteration of the loop of wait_until_ready: engage(polling_timeout),
\* ready(name, polling_mechanism, timeout=timeout), current = time.time(),
\* then the return of the socket or the next test of the loop condition.
\* writable1, writable2: what the transport reports to the two polls;
\* ticks: the time the iteration takes; frame: the frame, or for
\* recv_event_safe the two frames of the message, at the head of the
\* socket's queue
wait_iteration(writable1, writable2, ticks, frame) ==
    /\ last.ret = "running"
    /\ Len(last.polls) < 2 * MaxIterations
    /\ LET first_timeout == AndOr(last.polling_timeout, self_polling_timeout)
           second_timeout == AndOr(AndOr(last.timeout, self_timeout),
                                   self_polling_timeout)
           engaged == [last EXCEPT !.polls = @ \o <<first_timeout>>,
                                   !.calls = @ \o <<Polled>>]
       IN IF PollBlocks(first_timeout, Snapshot(writable1))
          THEN /\ last' = [engaged EXCEPT !.ret = "blocked"]
               /\ UNCHANGED inbox
          ELSE IF not_found(last.name)
          THEN /\ last' = [engaged EXCEPT !.ret = "SocketNotFound"]
               /\ UNCHANGED inbox
          ELSE LET socket == sockets[last.name]
                   snapshot == Snapshot(writable2)
                   found == IF is_ready(last.mask, snapshot[socket])
                            THEN socket ELSE NoSocket
                   polled == [engaged EXCEPT !.polls = @ \o <<second_timeout>>,
                                             !.calls = @ \o <<Polled>>,
                                             !.avail = snapshot[socket],
                                             !.elapsed = @ + ticks]
               IN IF PollBlocks(second_timeout, snapshot)
                  THEN /\ last' = [polled EXCEPT !.ret = "blocked"]
                       /\ UNCHANGED inbox
                  ELSE IF found = NoSocket /\ keeps_waiting(polled.elapsed, polled.timeout)
                  THEN /\ last' = polled
                       /\ UNCHANGED inbox
                  ELSE /\ last' = finished(polled, found, frame)
                       /\ inbox' = received(polled, found)
    /\ UNCHANGED <<bookkeeping, config, endpoints, pubsub, closed>>

\* a peer's frame arrives on a socket of the manager
peer_send(socket) ==
    /\ socket \in Created
    /\ ~closed[socket]
    /\ inbox[socket] < MaxInbox
    /\ inbox' = [inbox EXCEPT ![socket] = @ + 1]
    /\ UNCHANGED <<bookkeeping, config, endpoints, pubsub, closed, last>>

\* another task of the process, in a recv_safe of its own on the socket of
\* the call, finds the socket ready and receives the frame. Tasks are
\* cooperative: it runs only while the call is suspended in a poll of its
\* wait loop, and its own ready and recv have no poll between them
task_recv(socket) ==
    /\ last.op = "recv_safe"
    /\ last.ret = "running"
    /\ ~not_found(last.name)
    /\ socket = sockets[last.name]
    /\ is_ready(POLLIN, Snapshot({})[socket])
    /\ inbox' = [inbox EXCEPT ![socket] = @ - 1]
    /\ last' = [last EXCEPT !.taken = TRUE]
    /\ UNCHANGED <<bookkeeping, config, endpoints, pubsub, closed>>

\* ------------------------------------------------------- publish/subscribe

\* the transport hands a socket the messages whose topic frame starts with
\* one of its filters: over TopicFrames, the empty filter or the topic frame
matches(filter, topic_frame) == filter = "bytes:" \/ filter = topic_frame

\* the transport links a publisher with the other sockets of the manager:
\* the sockets explored here are attached to one inproc address, which a
\* socket does not listen to itself
connected(publisher, subscriber) == publisher # subscriber

\* the queues after the transport has taken frames from publisher: every open
\* socket linked to it that has a matching filter and room gets the message,
\* kept with the topic and data it was published with
delivered(publisher, frames, topic, data) ==
    [h \in Handles |->
        IF /\ h \in Created
           /\ ~closed[h]
           /\ connected(publisher, h)
           /\ \E filter \in subscribed[h] : matches(filter, frames[1])
           /\ Len(queue[h]) < MaxQueue
        THEN Append(queue[h], [frames |-> frames, topic |-> topic, data |-> data])
        ELSE queue[h]]

\* SocketManager.publish_safe; a closed socket refuses send_multipart
publish_safe(name, topic, data) ==
    /\ ~Running
    /\ LET call == [Called("publish_safe", name) EXCEPT !.topic = topic, !.data = data]
           socket == sockets[name]
           payload == pack(data)
           frames == <<cast_bytes(topic), cast_bytes(payload)>>
           sent == [call EXCEPT !.calls = <<Call("pack", NoSocket, <<data>>),
                                            Call("send_multipart", socket, frames)>>]
       IN IF not_found(name)
          THEN /\ last' = [call EXCEPT !.ret = "SocketNotFound"]
               /\ UNCHANGED queue
          ELSE IF closed[socket]
          THEN /\ last' = [sent EXCEPT !.ret = "ZMQError"]
               /\ UNCHANGED queue
          ELSE /\ last' = sent
               /\ queue' = delivered(socket, frames, topic, data)
    /\ UNCHANGED <<bookkeeping, config, endpoints, closed, inbox, subscribed, generator>>

\* SocketManager.subscribe: the call returns a generator and runs none of the
\* body
subscribe(name, topic, keep_polling) ==
    /\ generator.state = "none"
    /\ generator' = [NoGenerator EXCEPT !.state = "created", !.name = name,
                                        !.topic = topic,
                                        !.keep_polling = keep_polling]
    /\ UNCHANGED <<bookkeeping, config, endpoints, closed, inbox, last, subscribed, queue>>

\* `keep_polling or socket_exists`
keep_polling_or_socket_exists(keep_polling) ==
    IF keep_polling \in {"None", "0"} THEN "socket_exists" ELSE keep_polling

\* `isinstance(keep_polling, collections.Callable)`
callable(keep_polling) == keep_polling \in {"function", "socket_exists"}

\* keep_polling(): socket_exists is `self.get_by_name(name) is not None`, a
\* function handed by the caller gives its own answer
keep_polling_returns(gen, answer) ==
    IF keep_polling_or_socket_exists(gen.keep_polling) = "socket_exists"
    THEN ~not_found(gen.name)
    ELSE answer

\* a loop that goes on whatever keep_polling() returned
while_anyway(result) == TRUE

\* `while keep_polling():`
while_keep_polling(result) == result

\* the generator once socket.recv_multipart() has returned the message at the
\* head of the queue: unpack, then yield Event(topic, payload)
yielded(gen) ==
    LET message == Head(queue[gen.sock])
        topic == message.frames[1]
        raw == message.frames[2]
    IN [gen EXCEPT !.state = "suspended",
                   !.calls = @ \o <<Call("recv_multipart", gen.sock, message.frames),
                                    Call("unpack", NoSocket, <<raw>>)>>,
                   !.events = Append(@, <<topic, unpack(raw)>>),
                   !.origins = Append(@, <<message.topic, message.data>>)]

\* the generator at the top of its loop: keep_polling(), then
\* socket.recv_multipart(), which a closed socket refuses and which does not
\* return while the queue is empty
looped(gen, answer) ==
    LET result == keep_polling_returns(gen, answer)
        checked == [gen EXCEPT !.checks = Append(@, result)]
    IN IF ~while_keep_polling(result)
       THEN [checked EXCEPT !.state = "done"]
       ELSE IF closed[gen.sock]
       THEN [checked EXCEPT !.state = "ZMQError",
                            !.calls = @ \o <<Call("recv_multipart", gen.sock, <<>>)>>]
       ELSE IF queue[gen.sock] = <<>>
       THEN [checked EXCEPT !.state = "receiving"]
       ELSE yielded(checked)

\* the queues once the generator has taken what it received
taken(gen) ==
    IF gen.state = "suspended" /\ Len(gen.events) > Len(generator.events)
    THEN [queue EXCEPT ![gen.sock] = Tail(@)]
    ELSE queue

\* next() on the generator of subscribe: the body up to its first yield when
\* it has not started, the loop from the last yield on otherwise; answer is
\* what a keep_polling function of the caller returns
generator_next(answer) ==
    /\ generator.state \in {"created", "suspended"}
    /\ Len(generator.checks) < MaxChecks
    /\ IF generator.state = "suspended"
       THEN /\ generator' = looped(generator, answer)
            /\ queue' = taken(generator')
            /\ UNCHANGED subscribed
       ELSE IF not_found(generator.name)
       THEN /\ generator' = [generator EXCEPT !.state = "SocketNotFound"]
            /\ UNCHANGED <<subscribed, queue>>
       ELSE LET socket == sockets[generator.name]
                safe_topic == cast_bytes(topic_or_empty(generator.topic))
                set == [generator EXCEPT
                          !.sock = socket,
                          !.calls = <<Call("setsockopt", socket,
                                           <<"SUBSCRIBE", safe_topic>>)>>]
            IN IF closed[socket]
               THEN /\ generator' = [set EXCEPT !.state = "ZMQError"]
                    /\ UNCHANGED <<subscribed, queue>>
               ELSE /\ subscribed' = [subscribed EXCEPT ![socket] = @ \cup {safe_topic}]
                    /\ IF ~callable(keep_polling_or_socket_exists(generator.keep_polling))
                       THEN /\ generator' = [set EXCEPT !.state = "TypeError"]
                            /\ UNCHANGED queue
                       ELSE /\ generator' = looped(set, answer)
                            /\ queue' = taken(generator')
    /\ UNCHANGED <<bookkeeping, config, endpoints, closed, inbox, last>>

\* socket.recv_multipart() of the generator returns: a message has arrived, or
\* the socket was closed under it
generator_receive ==
    /\ generator.state = "receiving"
    /\ IF closed[generator.sock]
       THEN /\ generator' = [generator EXCEPT
                               !.state = "ZMQError",
                               !.calls = @ \o <<Call("recv_multipart", generator.sock, <<>>)>>]
            /\ UNCHANGED queue
       ELSE /\ queue[generator.sock] # <<>>
            /\ generator' = yielded(generator)
            /\ queue' = [queue EXCEPT ![generator.sock] = Tail(@)]
    /\ UNCHANGED <<bookkeeping, config, endpoints, closed, inbox, last, subscribed>>

\* --------------------------------------------------------- specifications

\* the lifecycle operations of the manager
Next ==
    \/ \E name \in Names : get_by_name(name)
    \/ \E name \in Names, socket_type \in SocketTypes : create(name, socket_type)
    \/ \E socket \in Handles, mask \in Masks : register_socket(socket, mask)
    \/ \E name \in Names : close(name)
    \/ \E name \in Names, ok \in BOOLEAN : disconnect(name, ok)
    \/ \E name \in Names, address \in Addresses \cup {EmptyAddress}, mask \in Masks,
          ok \in BOOLEAN : connect(name, address, mask, ok)
    \/ \E name \in Names, address \in Addresses \cup {EmptyAddress}, mask \in Masks,
          ok \in BOOLEAN : bind(name, address, mask, ok)

Spec == Init /\ [][Next]_vars

\* the lifecycle of named sockets: every operation that creates, registers,
\* addresses, closes or disconnects them, and the teardown of the manager
NextBook ==
    \/ \E name \in Names, socket_type \in BookSocketTypes : create(name, socket_type)
    \/ \E name \in Names, socket_type \in BookSocketTypes, mask \in BookMasks :
          get_or_create(name, socket_type, mask)
    \/ \E name \in Names : close(name)
    \/ \E name \in Names, ok \in BOOLEAN : disconnect(name, ok)
    \/ \E name \in Names, address \in Addresses \cup {EmptyAddress}, mask \in BookMasks,
          ok \in BOOLEAN : connect(name, address, mask, ok)
    \/ \E name \in Names, address \in Addresses \cup {EmptyAddress}, mask \in BookMasks,
          ok \in BOOLEAN : bind(name, address, mask, ok)
    \/ \E name \in Names, mask \in BookMasks, local_address \in LocalAddresses,
          port \in Ports, ok \in BOOLEAN :
            bind_to_random_port(name, mask, local_address, port, ok)
    \/ \E name \in Names, socket_type \in BookSocketTypes,
          address \in Addresses \cup {EmptyAddress}, mask \in BookMasks, ok \in BOOLEAN :
            ensure_and_connect(name, socket_type, address, mask, ok)
    \/ \E name \in Names, socket_type \in BookSocketTypes,
          address \in Addresses \cup {EmptyAddress}, mask \in BookMasks, ok \in BOOLEAN :
            ensure_and_bind(name, socket_type, address, mask, ok)
    \/ \E raising \in SUBSET Created : __del__(raising)

SpecBook == Init /\ [][NextBook]_vars

\* what the transport may report to the first poll of an iteration, whose
\* snapshot is read only to know whether a poll without timeout returns
FirstWritables ==
    IF AndOr(last.polling_timeout, self_polling_timeout) = NoTimeout
    THEN Writables ELSE {{}}

\* what a receive of the call inside the wait loop may return: a frame, or
\* for recv_event_safe the topic and payload frames of a message
Receivable ==
    IF last.op # "recv_event_safe" THEN Frames
    ELSE IF not_found(last.name) THEN {<<"", "">>}
    ELSE {message \in TopicFrames \X PayloadFrames :
            \E filter \in subscribed[sockets[last.name]] : matches(filter, message[1])}

\* the readiness engine and the safe input/output calls, on sockets that are
\* created, registered and closed
NextIO ==
    \/ \E name \in Names, socket_type \in SocketTypes : create(name, socket_type)
    \/ \E socket \in Handles, mask \in Masks : register_socket(socket, mask)
    \/ \E name \in Names : close(name)
    \/ \E socket \in Handles : peer_send(socket)
    \/ \E timeout \in PollingTimeouts, writable \in Writables : engage(timeout, writable)
    \/ \E name \in Names, mask \in Masks, timeout \in PollingTimeouts,
          writable \in Writables : ready(name, mask, timeout, writable)
    \/ \E name \in Names, mask \in Masks, timeout \in Timeouts,
          polling_timeout \in WaitPollingTimeouts :
            wait_until_ready(name, mask, timeout, polling_timeout)
    \/ \E name \in Names, data \in Values, timeout \in SafeTimeouts,
          polling_timeout \in WaitPollingTimeouts :
            send_safe(name, data, timeout, polling_timeout)
    \/ \E name \in Names, timeout \in SafeTimeouts,
          polling_timeout \in WaitPollingTimeouts :
            recv_safe(name, timeout, polling_timeout)
    \/ \E writable1 \in FirstWritables, writable2 \in Writables,
          ticks \in 0..MaxIterationTicks, frame \in Receivable :
            wait_iteration(writable1, writable2, ticks, frame)

SpecIO == Init /\ [][NextIO]_vars

\* recv_event_safe on sockets that are created, registered and closed, and
\* on which peers queue messages
NextEvent ==
    \/ \E name \in Names, socket_type \in SocketTypes : create(name, socket_type)
    \/ \E socket \in Handles, mask \in Masks : register_socket(socket, mask)
    \/ \E name \in Names : close(name)
    \/ \E socket \in Handles : peer_send(socket)
    \/ \E name \in Names, topic \in Topics, timeout \in SafeTimeouts,
          polling_timeout \in WaitPollingTimeouts :
            recv_event_safe(name, topic, timeout, polling_timeout)
    \/ \E writable1 \in FirstWritables, writable2 \in Writables,
          ticks \in 0..MaxIterationTicks, frame \in Receivable :
            wait_iteration(writable1, writable2, ticks, frame)

SpecEvent == Init /\ [][NextEvent]_vars

\* publishers and subscribers of one manager: sockets are created and
\* closed, messages are published on them, and one generator of subscribe
\* is iterated
NextSub ==
    \/ \E name \in Names : create(name, "SUB")
    \/ \E name \in Names : close(name)
    \/ \E name \in Names, topic \in PublishTopics, data \in Values :
            publish_safe(name, topic, data)
    \/ \E name \in Names, topic \in SubscribeTopics, keep_polling \in KeepPollings :
            subscribe(name, topic, keep_polling)
    \/ \E answer \in BOOLEAN : generator_next(answer)
    \/ generator_receive

SpecSub == Init /\ [][NextSub]_vars

\* one iteration of the wait loop during which the wall clock advances
advancing_iteration ==
    \E writable1 \in FirstWritables, writable2 \in Writables,
       ticks \in 1..MaxIterationTicks, frame \in Receivable :
        wait_iteration(writable1, writable2, ticks, frame)

\* wait_until_ready on sockets that are created, registered and closed, every
\* poll returning within its timeout and the clock advancing
NextLive ==
    \/ \E name \in Names, socket_type \in SocketTypes : create(name, socket_type)
    \/ \E socket \in Handles, mask \in Masks : register_socket(socket, mask)
    \/ \E name \in Names : close(name)
    \/ \E socket \in Handles : peer_send(socket)
    \/ \E name \in Names, mask \in Masks, timeout \in Timeouts,
          polling_timeout \in WaitPollingTimeouts :
            wait_until_ready(name, mask, timeout, polling_timeout)
    \/ advancing_iteration

\* the thread that called wait_until_ready keeps running its loop
SpecLive == Init /\ [][NextLive]_vars /\ WF_vars(advancing_iteration)

\* one iteration of the wait loop of a task, during which the wall clock
\* advances; the frame at the head of the queue is any a peer can send
task_iteration ==
    \E writable1 \in FirstWritables, writable2 \in Writables,
       ticks \in 1..MaxIterationTicks, frame \in PeerFrames :
        wait_iteration(writable1, writable2, ticks, frame)

\* two cooperative tasks that share the manager and call recv_safe on the
\* same socket: one is the call recorded, the other receives while the first
\* is suspended
NextTasks ==
    \/ \E name \in Names : create(name, "REQ")
    \/ \E socket \in Handles, mask \in Masks : register_socket(socket, mask)
    \/ \E socket \in Handles : peer_send(socket)
    \/ \E name \in Names, timeout \in SafeTimeouts,
          polling_timeout \in WaitPollingTimeouts :
            recv_safe(name, timeout, polling_timeout)
    \/ \E socket \in Handles : task_recv(socket)
    \/ task_iteration

\* the scheduler resumes the task that is inside the wait loop
SpecTasks == Init /\ [][NextTasks]_vars /\ WF_vars(task_iteration)

\* connects of a socket to several addresses, which the transport accepts
\* on every open socket, disconnects and closes
NextConnect ==
    \/ \E name \in Names : create(name, "REQ")
    \/ \E name \in Names, address \in ConnectAddresses :
            connect(name, address, POLLOUT, TRUE)
    \/ \E name \in Names, ok \in BOOLEAN : disconnect(name, ok)
    \/ \E name \in Names : close(name)

SpecConnect == Init /\ [][NextConnect]_vars

\* a manager constructed with a polling timeout that may be zero
InitEngine == constructed(ConfiguredTimeouts, EnginePollingTimeouts)

\* engage on sockets that are created and registered and on which peers
\* queue frames
NextEngine ==
    \/ \E name \in Names, socket_type \in SocketTypes : create(name, socket_type)
    \/ \E socket \in Handles, mask \in Masks : register_socket(socket, mask)
    \/ \E socket \in Handles : peer_send(socket)
    \/ \E timeout \in PollingTimeouts, writable \in Writables : engage(timeout, writable)

SpecEngine == InitEngine /\ [][NextEngine]_vars

\* ------------------------------------------------------------------ claims

\* the outward calls of the most recent call that went to f
CallsTo(f) == SelectSeq(last.calls, LAMBDA c : c.f = f)

\* C1: create(name, type) on a name that is not in self.sockets returns a new
\* socket and stores it under the name, whatever other names exist; on a name
\* that is in self.sockets it raises SocketAlreadyExists, creates no socket
\* and leaves the existing socket and all bookkeeping unchanged.
C1_create ==
    [][last'.op = "create" =>
         IF sockets[last'.name] = NoSocket
         THEN /\ last'.ret = "socket"
              /\ last'.sock \notin Created \cup {NoSocket}
              /\ sockets' = [sockets EXCEPT ![last'.name] = last'.sock]
              /\ CallsTo("context.socket")' # <<>>
              /\ UNCHANGED <<addresses, registry, poller, registrations>>
         ELSE /\ last'.ret = "SocketAlreadyExists"
              /\ last'.calls = <<>>
              /\ UNCHANGED bookkeeping]_vars

\* both names hold a socket and one more create was refused
C1_refused ==
    /\ last.op = "create"
    /\ last.ret = "SocketAlreadyExists"
    /\ \A n \in Names : sockets[n] # NoSocket

\* C2: get_by_name(name) raises SocketNotFound for a name that was never
\* created and for a name whose socket was closed with close(name); for any
\* other name it returns the socket stored under the name.
C2_get_by_name ==
    last.op = "get_by_name" =>
        IF sockets[last.name] = NoSocket
        THEN last.ret = "SocketNotFound"
        ELSE IF closed[sockets[last.name]]
        THEN last.ret = "SocketNotFound"
        ELSE last.ret = "socket" /\ last.sock = sockets[last.name]

\* get_by_name returned a socket that close had closed
C2_closed_returned ==
    /\ last.op = "get_by_name"
    /\ last.ret = "socket"
    /\ closed[last.sock]

\* C3: close(name) on a name that has no socket raises nothing, makes no
\* poller or transport call and leaves self.sockets, self.addresses and
\* self.registry unchanged.
C3_close_missing ==
    [][last'.op = "close" /\ sockets[last'.name] = NoSocket =>
         /\ last'.ret = "None"
         /\ last'.calls = <<>>
         /\ UNCHANGED bookkeeping]_vars

\* close raised on a name that has no socket
C3_close_raised ==
    /\ last.op = "close"
    /\ sockets[last.name] = NoSocket
    /\ last.ret = "SocketNotFound"

\* C4: disconnect(name) on a name that was never created returns False, does
\* not raise, and changes no state.
C4_disconnect_missing ==
    [][last'.op = "disconnect" /\ sockets[last'.name] = NoSocket =>
         /\ last'.ret = "False"
         /\ UNCHANGED bookkeeping]_vars

\* disconnect raised on a name that was never created
C4_disconnect_raised ==
    /\ last.op = "disconnect"
    /\ sockets[last.name] = NoSocket
    /\ last.ret = "SocketNotFound"

\* C5: register_socket(socket, mask) on a socket that is in self.registry
\* makes no poller.register call and keeps the first mask, also when another
\* mask is asked for; so a socket in self.registry has been registered with
\* the poller exactly once since it entered the registry.
C5_register_socket ==
    [][/\ \A h \in Handles : registry'[h] # NoMask => registrations'[h] = 1
       /\ last'.op = "register_socket" /\ registry[last'.sock] # NoMask =>
            /\ last'.calls = <<>>
            /\ UNCHANGED <<registry, poller, registrations>>]_vars

\* a registered socket was registered again with another mask, and kept the
\* first
C5_registered_again ==
    /\ last.op = "register_socket"
    /\ last.calls = <<>>
    /\ registry[last.sock] # NoMask
    /\ registry[last.sock] # last.mask

\* C6: bind and connect with an empty address raise SocketBindError and
\* SocketConnectError, whether the name exists or not, before any transport
\* call or poll and without changing self.sockets, self.registry, the poller
\* or self.addresses.
C6_empty_address ==
    [][last'.op \in {"connect", "bind"} /\ last'.data = EmptyAddress =>
         /\ last'.ret = IF last'.op = "bind" THEN "SocketBindError"
                        ELSE "SocketConnectError"
         /\ last'.calls = <<>>
         /\ last'.polls = <<>>
         /\ UNCHANGED bookkeeping]_vars

\* bind refused an empty address for a name that has a registered socket
C6_bind_refused ==
    /\ last.op = "bind"
    /\ last.data = EmptyAddress
    /\ last.ret = "SocketBindError"
    /\ sockets[last.name] # NoSocket
    /\ registry[sockets[last.name]] # NoMask

\* the wait of the most recent call ended with the socket: its last ready
\* found the socket available for exactly the mask
WaitReturnedSocket == last.polls # <<>> /\ last.avail = last.mask

\* C7: send_safe returns False when the wait for POLLOUT returns nothing, and
\* then neither packs nor sends; it returns True only after the wait returned
\* the socket, one pack of the data and one single-frame send of the packed
\* payload on the named socket.
C7_send_safe ==
    last.op = "send_safe" =>
        /\ last.mask = POLLOUT
        /\ last.ret \in {"True", "False"} =>
             (last.ret = "True" <=> WaitReturnedSocket)
        /\ last.ret = "False" =>
             /\ CallsTo("pack") = <<>>
             /\ CallsTo("send") = <<>>
        /\ last.ret = "True" =>
             /\ CallsTo("pack") = <<Call("pack", NoSocket, <<last.data>>)>>
             /\ CallsTo("send") =
                    <<Call("send", sockets[last.name], <<pack(last.data)>>)>>
             /\ last.calls[Len(last.calls)].f = "send"
             /\ last.calls[Len(last.calls) - 1].f = "pack"

\* send_safe polled, found the socket not writable until the timeout, and
\* returned False
C7_not_ready ==
    /\ last.op = "send_safe"
    /\ last.ret = "False"
    /\ last.polls # <<>>

\* C8: recv_safe returns None when the wait for POLLIN times out, without a
\* receive or an unpack; otherwise it makes one single-frame receive on the
\* named socket and returns unpack of the received frame.
C8_recv_safe ==
    last.op = "recv_safe" =>
        /\ last.mask = POLLIN
        /\ last.ret \in {"None", "value"} =>
             (last.ret = "value" <=> WaitReturnedSocket)
        /\ last.ret = "None" =>
             /\ last.elapsed >= last.timeout
             /\ CallsTo("recv") = <<>>
             /\ CallsTo("unpack") = <<>>
        /\ last.ret = "value" =>
             /\ Len(CallsTo("recv")) = 1
             /\ LET recv == CallsTo("recv")[1] IN
                /\ recv.h = sockets[last.name]
                /\ Len(recv.args) = 1
                /\ recv.args[1] \in Frames
                /\ CallsTo("unpack") = <<Call("unpack", NoSocket, recv.args)>>
                /\ last.val = unpack(recv.args[1])

\* recv_safe received a frame in its second iteration and returned its value
C8_received ==
    /\ last.op = "recv_safe"
    /\ last.ret = "value"
    /\ last.val \in Values
    /\ Len(last.polls) = 4

\* C9: ready(name, mask, timeout) on an existing name makes exactly one
\* poll, with the timeout (self.timeout when it is None), and returns the
\* socket if and only if the mask of the socket in the snapshot equals the
\* requested mask: None when the socket is absent from the snapshot and when
\* it is available for more than was requested.
C9_ready ==
    last.op = "ready" /\ sockets[last.name] # NoSocket =>
        /\ last.polls = <<IF last.timeout = NoTimeout THEN self_timeout
                          ELSE last.timeout>>
        /\ last.calls = <<Polled>>
        /\ last.ret \in {"socket", "None"}
        /\ last.ret = "socket" <=> last.avail = last.mask
        /\ last.sock = IF last.avail = last.mask THEN sockets[last.name]
                       ELSE NoSocket

\* ready was asked for POLLIN on a socket available for POLLIN|POLLOUT and
\* returned None
C9_superset ==
    /\ last.op = "ready"
    /\ last.mask = POLLIN
    /\ last.avail = POLLIN + POLLOUT
    /\ last.ret = "None"

\* C10: wait_until_ready repeats iterations of engage(polling_timeout) then
\* ready(name, mask): it goes on only while ready returned nothing and the
\* time elapsed since the call started is below timeout, returns the socket
\* at the first iteration whose ready returned it, with no poll after that,
\* and returns None only once the elapsed time has reached timeout.
C10_wait_until_ready ==
    [][last'.op = "wait_until_ready" /\ last' # last =>
         /\ IF last.ret = "running"
            THEN /\ last.op = "wait_until_ready"
                 /\ last'.ret # "SocketNotFound" =>
                      /\ Len(last'.polls) = Len(last.polls) + 2
                      /\ last'.polls[Len(last.polls) + 1] = last.polling_timeout
                 /\ last'.elapsed >= last.elapsed
            ELSE last'.polls = <<>> /\ last'.elapsed = 0
         /\ last'.ret = "running" =>
              /\ last'.elapsed < last'.timeout
              /\ last'.polls # <<>> => last'.avail # last'.mask
         /\ last'.ret = "socket" =>
              /\ last'.polls # <<>>
              /\ last'.avail = last'.mask
              /\ last'.sock = sockets[last'.name]
         /\ last'.ret = "None" =>
              /\ last'.elapsed >= last'.timeout
              /\ last'.polls # <<>> => last'.avail # last'.mask]_vars

\* wait_until_ready returned the socket at its second iteration, before the
\* timeout
C10_second_iteration ==
    /\ last.op = "wait_until_ready"
    /\ last.ret = "socket"
    /\ Len(last.polls) = 4
    /\ last.elapsed < last.timeout

\* C11: a wait_until_ready whose timeout is not negative and is smaller than
\* its polling_timeout makes at least one poll before it returns.
C11_polls_before_return ==
    /\ last.op = "wait_until_ready"
    /\ last.ret \in {"socket", "None"}
    /\ 0 <= last.timeout
    /\ last.timeout < last.polling_timeout
    => last.polls # <<>>

\* wait_until_ready with timeout 0 returned None without a poll
C11_returned_unpolled ==
    /\ last.op = "wait_until_ready"
    /\ last.ret = "None"
    /\ last.timeout = 0
    /\ last.timeout < last.polling_timeout
    /\ last.polls = <<>>

\* C12: wait_until_ready terminates for every finite timeout when every poll
\* returns within its timeout and the clock keeps advancing: a call inside
\* the loop eventually returns the socket or None (it raises SocketNotFound
\* when the name has no socket), and a wait that timed out returns None
\* rather than raising.
C12_terminates ==
    /\ (last.op = "wait_until_ready" /\ last.ret = "running")
         ~> (/\ last.op = "wait_until_ready"
             /\ IF sockets[last.name] # NoSocket
                THEN last.ret \in {"socket", "None"}
                ELSE last.ret = "SocketNotFound")
    /\ [](/\ last.op = "wait_until_ready"
          /\ sockets[last.name] # NoSocket
          /\ last.ret # "running"
          /\ last.avail # last.mask
          => last.ret = "None" /\ last.elapsed >= last.timeout)

\* wait_until_ready timed out after two iterations and returned None
C12_timed_out ==
    /\ last.op = "wait_until_ready"
    /\ sockets[last.name] # NoSocket
    /\ last.ret = "None"
    /\ Len(last.polls) = 4
    /\ last.elapsed >= last.timeout

\* C16: recv_event_safe(name, topic) raises TypeError if and only if topic is
\* neither a text or bytes value, nor empty, nor False or None; for an
\* omitted, False, None or empty topic and for any text topic it raises no
\* TypeError and goes on to wait for POLLIN.
C16_recv_event_safe_topic ==
    last.op = "recv_event_safe" =>
        /\ last.ret = "TypeError" <=> last.topic \in OtherTopics
        /\ last.topic \notin OtherTopics /\ sockets[last.name] # NoSocket
           /\ ~closed[sockets[last.name]] =>
             last.ret \in {"running", "None", "event"}

\* recv_event_safe raised TypeError on the topic False, its default
C16_default_refused ==
    /\ last.op = "recv_event_safe"
    /\ last.topic = "False"
    /\ last.ret = "TypeError"
    /\ last.calls = <<>>

\* C17: recv_event_safe(name, topic) with a non-empty bytes topic sets the
\* subscription filter to topic before it waits for POLLIN; when the wait
\* times out it returns None without a receive or an unpack; otherwise it
\* receives one two-frame message and returns an Event whose topic is frame 1
\* and whose data is unpack of frame 2.
C17_recv_event_safe ==
    /\ last.op = "recv_event_safe"
    /\ last.topic \in BytesTopics \ {"bytes:"}
    /\ last.ret \in {"running", "None", "event"}
    => /\ last.calls # <<>>
       /\ last.calls[1] = Call("setsockopt", sockets[last.name],
                               <<"SUBSCRIBE", last.topic>>)
       /\ Len(CallsTo("setsockopt")) = 1
       /\ last.ret = "None" =>
            /\ last.elapsed >= last.timeout
            /\ CallsTo("recv_multipart") = <<>>
            /\ CallsTo("unpack") = <<>>
       /\ last.ret = "event" =>
            /\ Len(CallsTo("recv_multipart")) = 1
            /\ LET message == CallsTo("recv_multipart")[1].args IN
               /\ Len(message) = 2
               /\ last.event = <<message[1], unpack(message[2])>>
               /\ CallsTo("unpack") = <<Call("unpack", NoSocket, <<message[2]>>)>>

\* recv_event_safe was given the topic b't', set the filter b"b't'" and
\* returned an Event
C17_filter_of_repr ==
    /\ last.op = "recv_event_safe"
    /\ last.topic = "bytes:t"
    /\ last.ret = "event"
    /\ last.calls[1] = Call("setsockopt", sockets[last.name],
                            <<"SUBSCRIBE", "bytes:b't'">>)

C14_publish_safe_returns ==
    /\ last.op = "publish_safe"
    /\ CallsTo("send_multipart") # <<>>
    /\ last.ret # "ZMQError"
    => last.ret = "True"

\* publish_safe sent the message and returned None
C14_returned_none ==
    /\ last.op = "publish_safe"
    /\ CallsTo("send_multipart") # <<>>
    /\ last.ret = "None"

C18_subscribe_not_callable ==
    /\ generator.keep_polling \in {"not a callable", "0"}
    /\ generator.sock # NoSocket
    /\ ~(generator.state = "ZMQError" /\ Len(generator.calls) = 1)
    => /\ generator.state = "TypeError"
       /\ generator.events = <<>>
       /\ Len(generator.calls) = 1

\* subscribe was given the number 0 as keep_polling and yielded an Event
C18_zero_accepted ==
    /\ generator.keep_polling = "0"
    /\ generator.state = "suspended"
    /\ generator.events # <<>>

\* the receives of the generator that returned a message
GeneratorReceives(gen) ==
    SelectSeq(gen.calls, LAMBDA c : c.f = "recv_multipart" /\ c.args # <<>>)

\* the number of times keep_polling() was true
TrueChecks(gen) == Len(SelectSeq(gen.checks, LAMBDA result : result))

\* what the record of a generator that has started shows
GeneratorLog(gen) ==
    LET receives == GeneratorReceives(gen) IN
    /\ gen.calls[1] = Call("setsockopt", gen.sock,
                           <<"SUBSCRIBE", IF gen.topic = "None" THEN "bytes:"
                                          ELSE "bytes:" \o gen.topic>>)
    /\ Len(SelectSeq(gen.calls, LAMBDA c : c.f = "setsockopt")) = 1
    /\ \A i \in 1..Len(gen.checks) - 1 : gen.checks[i]
    /\ gen.state = "done" <=> gen.checks # <<>> /\ ~gen.checks[Len(gen.checks)]
    /\ Len(gen.events) = Len(receives)
    /\ \A i \in 1..Len(receives) :
         /\ Len(receives[i].args) = 2
         /\ gen.events[i] = <<receives[i].args[1], unpack(receives[i].args[2])>>
    /\ Len(receives) <= TrueChecks(gen)
    /\ TrueChecks(gen) <= Len(receives) + 1
    /\ gen.state \in {"suspended", "done"} => Len(receives) = TrueChecks(gen)

\* C19: the subscribe generator sets the filter once, the empty filter when
\* no topic is given, and evaluates keep_polling() before every receive: each
\* time it is true it makes one two-frame receive and yields one Event, whose
\* topic is frame 1 and whose data is unpack of frame 2, so Events come in
\* the order of the receives; it ends the first time keep_polling() is false,
\* with no receive after that.
C19_subscribe_sequence ==
    [][/\ generator'.sock # NoSocket => GeneratorLog(generator')
       /\ generator.state = "done" => generator' = generator
       /\ generator.state # "none" =>
            /\ Len(generator'.events) <= Len(generator.events) + 1
            /\ SubSeq(generator'.events, 1, Len(generator.events)) = generator.events]_vars

\* a generator with a keep_polling function yielded one Event and ended when
\* the function returned false
C19_ended ==
    /\ generator.keep_polling = "function"
    /\ generator.state = "done"
    /\ generator.checks = <<TRUE, FALSE>>
    /\ Len(generator.events) = 1

\* C20: with the default keep_polling, close(name) while the generator of
\* subscribe is active makes its existence check fail, so the generator
\* stops: it yields no further Event and makes no further receive.
C20_close_stops_subscribe ==
    [][/\ generator.keep_polling = "None"
       /\ generator.state \in {"suspended", "receiving"}
       /\ closed[generator.sock]
       /\ generator' # generator
       => /\ generator'.state = "done"
          /\ generator'.events = generator.events
          /\ generator'.calls = generator.calls]_vars

\* after close(name) the default keep_polling was true again and the
\* generator went on to a receive, which the closed socket refused
C20_received_on_closed ==
    /\ generator.keep_polling = "None"
    /\ generator.state = "ZMQError"
    /\ closed[generator.sock]
    /\ generator.events # <<>>
    /\ generator.checks[Len(generator.checks)]
    /\ generator.calls[Len(generator.calls)] =
           Call("recv_multipart", generator.sock, <<>>)

\* the calls of the most recent call that are f on socket
CallsOn(f, socket) ==
    SelectSeq(last.calls, LAMBDA c : c.f = f /\ c.h = socket)

\* C21: the teardown of a manager calls close() on every socket it holds,
\* also when the close() of one of them raises; it raises nothing itself, and
\* leaves the address book and the poll registry empty.
C21_teardown ==
    last.op = "__del__" =>
        /\ last.ret = "None"
        /\ \A socket \in Created : Len(CallsOn("close", socket)) = 1
        /\ \A name \in Names : addresses[name] = EmptyAddress
        /\ \A socket \in Handles : registry[socket] = NoMask

\* a teardown of two sockets in which the close() of the first raised and
\* left it open, and the second was closed
C21_one_raised ==
    /\ last.op = "__del__"
    /\ Created = {1, 2}
    /\ ~closed[1]
    /\ closed[2]
    /\ Len(last.calls) = 2

\* C22: close(name) on an existing socket unregisters it from the poller,
\* whether it was registered or not, removes the address of name and leaves
\* the addresses of the other names, and calls close() on the socket once.
C22_close ==
    [][last'.op = "close" /\ ~not_found(last'.name) /\ last' # last =>
        LET socket == sockets[last'.name] IN
        /\ poller' = [poller EXCEPT ![socket] = NoMask]
        /\ addresses'[last'.name] = EmptyAddress
        /\ \A other \in Names \ {last'.name} : addresses'[other] = addresses[other]
        /\ Len(SelectSeq(last'.calls, LAMBDA c : c.f = "close")) = 1
        /\ Len(SelectSeq(last'.calls, LAMBDA c : c.f = "close" /\ c.h = socket)) = 1
        /\ closed'[socket]
        /\ last'.ret = "None"]_vars

\* close(name) of a socket that was not registered with the poller, while
\* the other name keeps its address
C22_closed_unregistered ==
    /\ last.op = "close"
    /\ last.ret = "None"
    /\ closed[sockets[last.name]]
    /\ registry[sockets[last.name]] = NoMask
    /\ addresses[last.name] = EmptyAddress
    /\ \E other \in Names \ {last.name} : addresses[other] # EmptyAddress

Positions(f) == {i \in 1..Len(last.calls) : last.calls[i].f = f}

\* C24: connect(name, address, mask) and bind(name, address, mask) with a
\* non-empty address on an existing socket register the socket with the poll
\* registry, then poll once with timeout 0, then call socket.connect or
\* socket.bind once with address, in this order; when the transport accepts,
\* the address book maps name to address and the socket is returned.
C24_connect_bind ==
    /\ last.op \in {"connect", "bind"}
    /\ ~empty_address(last.data)
    /\ ~not_found(last.name)
    => LET socket == sockets[last.name] IN
       /\ registry[socket] # NoMask
       /\ last.polls = <<0>>
       /\ Cardinality(Positions("poll")) = 1
       /\ Positions(last.op) = {Len(last.calls)}
       /\ last.calls[Len(last.calls)] = Call(last.op, socket, <<last.data>>)
       /\ \A r \in Positions("poller.register"), p \in Positions("poll") : r < p
       /\ \A p \in Positions("poll"), t \in Positions(last.op) : p < t
       /\ Positions("poller.register") # {} =>
            /\ poller[socket] = last.mask
            /\ registry[socket] = last.mask
       /\ last.ret = "socket" =>
            /\ addresses[last.name] = last.data
            /\ last.sock = socket

\* bind registered the socket with the poller, polled and bound, and
\* returned the socket
C24_bound ==
    /\ last.op = "bind"
    /\ last.ret = "socket"
    /\ Len(last.calls) = 3
    /\ last.calls[1].f = "poller.register"
    /\ addresses[last.name] = last.data

\* C25: when the transport refuses socket.connect or socket.bind, as it does
\* on a closed socket, connect raises SocketConnectError and bind raises
\* SocketBindError; no call of connect or bind ends with a ZMQError.
C25_transport_rejects ==
    last.op \in {"connect", "bind"} =>
        /\ last.ret \in {"socket", "SocketNotFound",
                         IF last.op = "connect" THEN "SocketConnectError"
                         ELSE "SocketBindError"}
        /\ /\ Positions(last.op) # {}
           /\ closed[sockets[last.name]]
           => last.ret = IF last.op = "connect" THEN "SocketConnectError"
                         ELSE "SocketBindError"

\* connect called socket.connect on a closed socket and raised
\* SocketConnectError
C25_connect_refused ==
    /\ last.op = "connect"
    /\ Positions("connect") # {}
    /\ closed[sockets[last.name]]
    /\ last.ret = "SocketConnectError"

\* C26: a call of bind or connect that raises records no address: it leaves
\* the address book as it was.
C26_raising_records_nothing ==
    [][/\ last'.op \in {"connect", "bind"}
       /\ last'.ret # "socket"
       => addresses' = addresses]_vars

\* connect on a name that has no socket raised SocketNotFound and left its
\* address in the address book
C26_address_of_missing ==
    /\ last.op = "connect"
    /\ last.ret = "SocketNotFound"
    /\ not_found(last.name)
    /\ addresses[last.name] = last.data
    /\ addresses[last.name] # EmptyAddress

\* C27: ensure_and_connect and ensure_and_bind(name, type, address, mask)
\* create the socket only when name is absent, so they never raise
\* SocketAlreadyExists and never replace a socket; then they connect or bind
\* it, then engage once with the configured polling timeout, and return the
\* socket; called again with the same name they leave one socket under the
\* name and one registration of it with the poller.
C27_ensure_and ==
    [][last'.op \in {"ensure_and_connect", "ensure_and_bind"} /\ last' # last =>
        LET name == last'.name
            socket == sockets'[name]
            transport == IF last'.op = "ensure_and_connect" THEN "connect" ELSE "bind"
            creations == SelectSeq(last'.calls, LAMBDA c : c.f = "context.socket")
            registers == SelectSeq(last'.calls, LAMBDA c : c.f = "poller.register")
            count == Len(last'.calls)
        IN
        /\ last'.ret # "SocketAlreadyExists"
        /\ socket # NoSocket
        /\ \A other \in Names \ {name} : sockets'[other] = sockets[other]
        /\ IF sockets[name] = NoSocket
           THEN Len(creations) = 1 /\ last'.calls[1].f = "context.socket"
           ELSE creations = <<>> /\ sockets' = sockets
        /\ Len(registers) <= 1
        /\ last'.ret = "socket" =>
             /\ last'.sock = socket
             /\ last'.polls = <<0, self_polling_timeout>>
             /\ count >= 3
             /\ SubSeq(last'.calls, count - 2, count) =
                    <<Polled, Call(transport, socket, <<last'.data>>), Polled>>
             /\ \A i \in 1..count - 3 :
                    last'.calls[i].f \in {"context.socket", "setsockopt", "poller.register"}
             /\ registry'[socket] # NoMask
             /\ poller'[socket] = registry'[socket]
             /\ registrations'[socket] = 1]_vars

\* ensure_and_connect on a name that had its socket, registered, made no
\* socket and no registration: it polled, connected and engaged
C27_ensured_again ==
    /\ last.op = "ensure_and_connect"
    /\ last.ret = "socket"
    /\ last.calls = <<Polled, Call("connect", sockets[last.name], <<last.data>>), Polled>>
    /\ registrations[sockets[last.name]] = 1

\* C28: bind_to_random_port(name, mask, local_address) registers the socket,
\* polls once with timeout 0, asks the transport for a port and returns the
\* socket and local_address + ':' + port; the address book then holds that
\* address for name.
C28_bind_to_random_port ==
    /\ last.op = "bind_to_random_port"
    /\ ~not_found(last.name)
    => LET socket == sockets[last.name]
           count == Len(last.calls)
       IN
       /\ registry[socket] # NoMask
       /\ last.polls = <<0>>
       /\ Cardinality(Positions("poll")) = 1
       /\ Positions("bind_to_random_port") = {count}
       /\ last.calls[count].h = socket
       /\ last.calls[count - 1] = Polled
       /\ \A r \in Positions("poller.register") : r < count - 1
       /\ last.ret = "socket, address" =>
            /\ last.sock = socket
            /\ \E port \in Ports : last.data = last.calls[count].args[1] \o ":" \o port
            /\ addresses[last.name] = last.data

\* bind_to_random_port returned the socket and an address with a port
C28_random_port ==
    /\ last.op = "bind_to_random_port"
    /\ last.ret = "socket, address"
    /\ last.data = "tcp://0.0.0.0:5000"
    /\ addresses[last.name] = "tcp://0.0.0.0:5000"

\* C30: in every state reached by create, get_or_create, bind, connect,
\* bind_to_random_port, close and disconnect, the sockets in self.registry
\* are the sockets registered with the poller, with the same masks.
C30_registry_is_poller ==
    \A socket \in Handles : registry[socket] = poller[socket]

\* close(name) took the socket out of the poller and left it in
\* self.registry
C30_closed_in_registry ==
    /\ last.op = "close"
    /\ last.ret = "None"
    /\ registry[sockets[last.name]] # NoMask
    /\ poller[sockets[last.name]] = NoMask

\* C29: send_safe and recv_safe raise SocketNotFound whenever name has no
\* socket, whatever timeout and polling_timeout they are given.
C29_missing_name ==
    /\ last.op \in {"send_safe", "recv_safe"}
    /\ not_found(last.name)
    /\ ~Running
    => last.ret = "SocketNotFound"

\* send_safe with timeout 0 on a name that has no socket returned False
C29_false_for_missing ==
    /\ last.op = "send_safe"
    /\ not_found(last.name)
    /\ last.timeout = 0
    /\ last.ret = "False"
    /\ last.calls = <<>>

\* C31: in every reachable state every name that has an address in the
\* address book is the name of a socket in self.sockets; a bind or connect
\* that fails with SocketNotFound leaves no address behind.
C31_addresses_of_sockets ==
    \A name \in Names : addresses[name] # EmptyAddress => ~not_found(name)

\* bind on a name that has no socket raised SocketNotFound and the address
\* book holds the address under that name
C31_bind_of_missing ==
    /\ last.op = "bind"
    /\ last.ret = "SocketNotFound"
    /\ not_found(last.name)
    /\ addresses[last.name] = last.data
    /\ last.data # EmptyAddress

\* the calls that go to the transport of a socket
TransportCalls ==
    {"send", "recv", "send_multipart", "recv_multipart", "setsockopt", "bind",
     "connect", "disconnect", "bind_to_random_port", "close"}

\* C32: no transport operation is invoked on a socket after close(name) has
\* closed it, whatever the manager is asked next, its teardown included.
C32_nothing_after_close ==
    [][/\ last.op = "close"
       /\ last.ret = "None"
       /\ last' # last
       => \A i \in 1..Len(last'.calls) :
            ~(/\ last'.calls[i].f \in TransportCalls
              /\ last'.calls[i].h = sockets[last.name])]_vars

\* bind called socket.bind on a socket that close(name) had closed: the
\* socket was still in self.registry and no longer in the poller
C32_bound_after_close ==
    /\ last.op = "bind"
    /\ Positions("bind") # {}
    /\ Positions("poller.register") = {}
    /\ closed[sockets[last.name]]
    /\ registry[sockets[last.name]] # NoMask
    /\ poller[sockets[last.name]] = NoMask

\* C37: when ensure_and_connect or ensure_and_bind raises SocketConnectError
\* or SocketBindError for an empty address, self.sockets, self.registry and
\* the address book are as they were before the call.
C37_empty_address_changes_nothing ==
    [][/\ last'.op \in {"ensure_and_connect", "ensure_and_bind"}
       /\ last'.data = EmptyAddress
       /\ last'.ret \in {"SocketConnectError", "SocketBindError"}
       => UNCHANGED <<sockets, registry, addresses>>]_vars

\* ensure_and_bind with an empty address raised SocketBindError after it had
\* created the socket and registered it
C37_created_then_refused ==
    /\ last.op = "ensure_and_bind"
    /\ last.data = EmptyAddress
    /\ last.ret = "SocketBindError"
    /\ Positions("context.socket") # {}
    /\ Positions("poller.register") # {}
    /\ ~not_found(last.name)
    /\ registry[sockets[last.name]] # NoMask

\* C36: every poll made during wait_until_ready(name, mask, timeout,
\* polling_timeout), the poll inside ready included, is given polling_timeout
\* (milliseconds); the timeout of the wait (seconds) is never handed to
\* poller.poll.
C36_polls_with_polling_timeout ==
    last.op = "wait_until_ready" =>
        \A i \in 1..Len(last.polls) : last.polls[i] = last.polling_timeout

\* an iteration of wait_until_ready with timeout 1 and the configured polling
\* timeout polled with 5 in engage and with 1 in ready
C36_polled_with_timeout ==
    /\ last.op = "wait_until_ready"
    /\ last.timeout = 1
    /\ last.polling_timeout = 5
    /\ last.polls = <<5, 1>>

\* the calls of the readiness engine and of safe input and output
ReadinessCalls == {"engage", "ready", "wait_until_ready", "send_safe", "recv_safe"}

\* the step is a ready, or an iteration of the wait loop that got to its
\* ready, on a name that has a socket, and the poll of that ready returned
ReadyDecided ==
    /\ last' # last
    /\ \/ last'.op = "ready"
       \/ /\ last'.op \in {"wait_until_ready", "send_safe", "recv_safe"}
          /\ last.ret = "running"
          /\ Len(last'.polls) = Len(last.polls) + 2
    /\ ~not_found(last'.name)
    /\ last'.ret \notin {"blocked", "TypeError", "SocketNotFound"}

\* C38: engage, ready, wait_until_ready, send_safe and recv_safe, whether
\* they succeed or time out, leave self.sockets, the address book and the
\* poll registry as they were; no snapshot is kept from one call to the
\* next: what ready finds available for reading is what the poll made for it
\* reports, a frame queued now on an open socket registered for POLLIN.
C38_readiness_frame ==
    [][last'.op \in ReadinessCalls =>
        /\ UNCHANGED <<sockets, addresses, registry, poller, registrations>>
        /\ ReadyDecided =>
             LET socket == sockets[last'.name] IN
             HasIn(last'.avail) <=>
                 HasIn(poller[socket]) /\ ~closed[socket] /\ inbox[socket] > 0]_vars

\* recv_safe timed out on a registered socket and left it registered
C38_timed_out_unchanged ==
    /\ last.op = "recv_safe"
    /\ last.ret = "None"
    /\ Len(last.polls) = 2
    /\ poller[sockets[last.name]] = POLLIN
    /\ registry[sockets[last.name]] = POLLIN

\* C33: when two cooperative tasks share the manager and both call
\* recv_safe on the same socket, no receive of recv_safe is left waiting for
\* a frame: every socket.recv() it issues returns one, and the call that
\* does not obtain the frame comes back, within its timeout, with None.
C33_recv_safe_of_two_tasks ==
    /\ [](last.op = "recv_safe" =>
            /\ last.ret # "blocked"
            /\ CallsTo("recv") # <<>> => last.ret = "value" /\ CallsTo("recv")[1].args # <<>>
            /\ last.ret = "None" => CallsTo("recv") = <<>>)
    /\ (last.op = "recv_safe" /\ last.ret = "running")
         ~> (last.op = "recv_safe" /\ last.ret \in {"None", "value", "SocketNotFound"})

\* the other task received the pending frame while recv_safe was suspended,
\* and recv_safe returned None when its timeout was over
C33_lost_the_frame ==
    /\ last.op = "recv_safe"
    /\ last.taken
    /\ last.ret = "None"
    /\ last.elapsed >= last.timeout
    /\ inbox[sockets[last.name]] = 0

\* recv_safe returned python's None: by its bare return or as the payload
ReturnedNothing ==
    /\ last.op = "recv_safe"
    /\ \/ last.ret = "None"
       \/ last.ret = "value" /\ last.val = "None"

\* C34: if recv_safe(name) returns None then it received no frame from the
\* socket during the call, whatever payload a peer sends.
C34_nothing_means_timed_out ==
    ReturnedNothing => CallsTo("recv") = <<>>

\* recv_safe received the frame null, unpacked it and returned None
C34_received_null ==
    /\ ReturnedNothing
    /\ CallsTo("recv") = <<Call("recv", sockets[last.name], <<"json:null">>)>>
    /\ CallsTo("unpack") # <<>>

\* C35: after disconnect(name) has returned True the socket is connected to
\* no address in the transport, whatever successful connects came before.
C35_disconnected_from_all ==
    last.op = "disconnect" /\ last.ret = "True" =>
        endpoints[sockets[last.name]] = {}

\* a socket connected to two addresses was disconnected from the second
\* only and disconnect returned True
C35_still_connected ==
    /\ last.op = "disconnect"
    /\ last.ret = "True"
    /\ CallsTo("disconnect") = <<Call("disconnect", sockets[last.name], <<"inproc://b">>)>>
    /\ endpoints[sockets[last.name]] = {"inproc://a"}

\* C39: engage(timeout) calls poller.poll once, with timeout, or with the
\* configured polling timeout when timeout is omitted; a timeout of zero,
\* given or configured, is a poll that does not wait.
C39_engage ==
    last.op = "engage" =>
        /\ Len(CallsTo("poll")) = 1
        /\ last.polls = <<IF last.timeout = NoTimeout
                          THEN self_polling_timeout ELSE last.timeout>>
        /\ last.polls = <<0>> => last.ret = "snapshot"

\* engage() of a manager configured with polling timeout 0 polled without a
\* timeout and did not return
C39_unbounded_wait ==
    /\ last.op = "engage"
    /\ last.timeout = NoTimeout
    /\ self_polling_timeout = 0
    /\ last.polls = <<NoTimeout>>
    /\ last.ret = "blocked"

====
